---- MODULE Spec2Model ----
(***************************************************************************)
(* A model of tumblr-photo-video-ripper.py: the CrawlerScheduler (main     *)
(* thread) walks the listing API of each site page by page and puts work   *)
(* items on a Queue; DownloadWorker threads take them, resolve the media   *)
(* URL, fetch it with retries and report to the DownloadTracker.           *)
(*                                                                         *)
(* Threads interleave at every access to shared state (queue, file system, *)
(* tracker counters).  File-system semantics are POSIX: os.remove unlinks  *)
(* a name while writers that hold it open keep writing to the orphan.      *)
(***************************************************************************)
EXTENDS Integers, Sequences, FiniteSets, TLC

\* ---------------------------------------------------------------- constants
RETRY == 5
START == 0
MEDIA_NUM == 50

\* The worker threads (THREADS of them in the source).
Workers == {"w1", "w2"}

\* How many undecodable / unparsable listing responses one walk may receive.
MaxPageRetry == 1
\* How many times the program is run against the same directory.
MaxRuns == 2
\* How many entries a srcset list may hold.
MaxEntries == 3
\* How many downloads one session may record when the tracker is run alone.
MaxRecords == 2

\* The site list given on the command line.
Sites == <<"a", "b">>
\* The site lists the tracker is run alone with: two sites, or one site named
\* twice (sys.argv[1].split(",") keeps duplicates).
SiteLists == {Sites, <<"a", "a">>}
SiteNames == {Sites[i] : i \in 1..Len(Sites)}
MediumTypes == {"photo", "video"}

\* ------------------------------------------------------------------- urls
\* A medium url: segs is medium_url.split("/"), abs is
\* medium_url.startswith('http'), tumblr is whether the last segment starts
\* with "tumblr"; sseg is the W of a /sWxH/ path segment (0: none), suf the
\* NNN of a _NNN.(jpg|png|gif) suffix (0: none), hass / hasx whether the
\* letters 's' / 'x' occur in the url.
Url(abs, segs, tumblr, sseg, suf, hass, hasx) ==
    [abs |-> abs, segs |-> segs, tumblr |-> tumblr, sseg |-> sseg,
     suf |-> suf, hass |-> hass, hasx |-> hasx]

NoUrl == Url(FALSE, <<>>, FALSE, 0, 0, FALSE, FALSE)

Last(s) == s[Len(s)]

\* _download, lines 340-349: the legacy branch indexes split("/")[-2].
RaisesIndexError(u) == ~u.abs /\ ~u.tumblr /\ Len(u.segs) < 2

\* _download, lines 340-351: the name of the file, as a sequence of tokens.
MediumName(u) ==
    IF u.abs THEN <<Last(u.segs)>>
    ELSE (IF u.tumblr THEN <<Last(u.segs)>>
          ELSE <<u.segs[Len(u.segs) - 1], "_", Last(u.segs)>>) \o <<".mp4">>

\* _download, lines 340-349.
FinalUrl(u) ==
    IF u.abs THEN u.segs ELSE <<"https:", "", "vt.tumblr.com">> \o MediumName(u)

\* _download, lines 353-367: the resolution tag, 0 standing for "unknown" and
\* W for "Wpx".  A relative url is completed with an https:// prefix, which
\* holds an 's'.
Resolution(u) ==
    IF (u.hass \/ ~u.abs) /\ u.hasx
    THEN u.sseg
    ELSE IF u.suf \in {1280, 500} THEN u.suf ELSE 0

Tags == {0, 500, 1280}

\* ------------------------------------------------------------------ posts
\* post["video-player"][1]["#text"] as the three regex rules see it: source
\* is group 1 of source_pattern (NoUrl: no <source src="...mp4..."> tag), hd
\* is what hd_pattern finds, src is group 1 of default_pattern (NoUrl: no
\* src="..." attribute followed by a space).
Player(source, hd, src) == [source |-> source, hd |-> hd, src |-> src]

\* What hd_pattern finds: no "hdUrl" field, the literal false, or a quoted
\* string; url is the string without its backslashes, escaped whether it held
\* any.
NoHd == [kind |-> "none", url |-> NoUrl, escaped |-> FALSE]
HdFalse == [kind |-> "false", url |-> NoUrl, escaped |-> FALSE]
HdUrl(u, escaped) == [kind |-> "url", url |-> u, escaped |-> escaped]

\* A post of the listing, as xmltodict decodes it: photo_url is
\* post["photo-url"][0]["#text"], video is the src attribute of the legacy
\* markup in post["video-player"][1]["#text"], photoset is
\* post["photoset"]["photo"], keys are the keys of the dict.  kind "str" is a
\* bare string: what a loop over a dict yields.
Post(id, photo_url, video, photoset, keys) ==
    [kind |-> "dict", id |-> id, photo_url |-> photo_url,
     player |-> Player(NoUrl, NoHd, video),
     photoset |-> photoset, keys |-> keys, srcset |-> <<>>, img |-> NoUrl]

StrPost(k) ==
    [kind |-> "str", id |-> k, photo_url |-> NoUrl,
     player |-> Player(NoUrl, NoHd, NoUrl),
     photoset |-> <<>>, keys |-> <<>>, srcset |-> <<>>, img |-> NoUrl]

\* A post without photo-url whose regular-body holds html: srcset is the
\* comma-separated list of the first srcset attribute, img the src of the
\* first <img> tag (NoUrl: none).
BodyPost(id, srcset, img) ==
    [kind |-> "dict", id |-> id, photo_url |-> NoUrl,
     player |-> Player(NoUrl, NoHd, NoUrl),
     photoset |-> <<>>, keys |-> <<"@id", "regular-body">>,
     srcset |-> srcset, img |-> img]

\* A video post whose player markup holds any of the three formats.
PlayerPost(id, source, hd, src) ==
    [kind |-> "dict", id |-> id, photo_url |-> NoUrl,
     player |-> Player(source, hd, src),
     photoset |-> <<>>, keys |-> <<"@id", "video-player">>,
     srcset |-> <<>>, img |-> NoUrl]

\* One element of a srcset list: parsed is whether the entry matches
\* (https://[^\s]+)\s+(\d+)w, url and width are the two groups.
Entry(url, width) == [parsed |-> TRUE, url |-> url, width |-> width]
NoEntry == [parsed |-> FALSE, url |-> NoUrl, width |-> 0]

\* xmltodict gives a list for two or more elements of one name and a single
\* dict for one; "for x in <dict>" yields the dict's keys.
Iterate(elems) ==
    IF Len(elems) = 1
    THEN [i \in 1..Len(elems[1].keys) |-> StrPost(elems[1].keys[i])]
    ELSE elems

U1 == Url(TRUE, <<"https:", "", "a", "img1.jpg">>, FALSE, 0, 0, TRUE, FALSE)
U2 == Url(TRUE, <<"https:", "", "64.media", "s1280x1920", "img2.jpg">>,
          FALSE, 1280, 0, TRUE, TRUE)
\* Two photo urls with a _NNN.jpg suffix and no sWxH segment:
\* https://64.media/abc/tumblr_xyz_1280.jpg (the name holds an 'x') and
\* https://a/tumblr_q_400.jpg.
U3 == Url(TRUE, <<"https:", "", "64.media", "abc", "tumblr_xyz_1280.jpg">>,
          TRUE, 0, 1280, TRUE, TRUE)
U4 == Url(TRUE, <<"https:", "", "a", "tumblr_q_400.jpg">>,
          TRUE, 0, 400, TRUE, FALSE)
V1 == Url(FALSE, <<"", "video_file", "tumblr_v1">>, TRUE, 0, 0, FALSE, FALSE)
VBad == Url(FALSE, <<"abc">>, FALSE, 0, 0, FALSE, FALSE)
\* The url of a <source> tag, the url of an hdUrl field, and the empty string
\* of "hdUrl":"".
VS == Url(TRUE, <<"https:", "", "va.media", "tumblr_s.mp4">>, TRUE, 0, 0,
          TRUE, FALSE)
VH == Url(TRUE, <<"https:", "", "vt.media", "tumblr_h.mp4">>, TRUE, 0, 0,
          TRUE, FALSE)
EmptyUrl == Url(FALSE, <<"">>, FALSE, 0, 0, FALSE, FALSE)

Photo(id, u) == Post(id, u, NoUrl, <<>>, <<"photo-url">>)
Video(id, u) == Post(id, NoUrl, u, <<>>, <<"@id", "video-player">>)

\* The remote listing: the pages of each site and medium type, in order.
\* Site a lists the same photo twice, a video with a legacy relative url and
\* a video whose url has no "/"; site b lists a post without any photo and a
\* photoset of one photo (a dict of two keys), and no video.
Remote(site, medium_type) ==
    CASE site = "a" /\ medium_type = "photo" ->
           << <<Photo("p1", U1), Photo("p2", U1)>> >>
      [] site = "a" /\ medium_type = "video" ->
           << <<Video("v1", V1), Video("v2", VBad)>> >>
      [] site = "b" /\ medium_type = "photo" ->
           << <<Post("p3", NoUrl, NoUrl, <<>>, <<"@id", "regular-body">>),
                Post("p4", NoUrl, NoUrl,
                     <<Post("p4a", U2, NoUrl, <<>>, <<"@width", "photo-url">>)>>,
                     <<"@id", "photoset">>)>> >>
      [] OTHER -> <<>>

\* The size in bytes of the body the media origin serves for a final url.
BodySize(final_url) == IF final_url = FinalUrl(U1) THEN 2 ELSE 3
\* The size of an error page (a non-2xx response other than 403).
ErrSize == 1

\* -------------------------------------------------------------- resolving
\* The absolute urls of the model in the order of Python's str comparison
\* ("https://6..." sorts before "https://a...").
UrlOrder == <<U2, U1>>
StrRank(u) == CHOOSE k \in 1..Len(UrlOrder) : UrlOrder[k] = u

\* The order of the (width, url) tuples that list.sort compares.
TupleLess(e, f) ==
    \/ e.width < f.width
    \/ e.width = f.width /\ StrRank(e.url) < StrRank(f.url)

\* _handle_medium_url, lines 297-305: the entries that match, in list order.
RECURSIVE ParsedEntries(_)
ParsedEntries(srcset) ==
    IF srcset = <<>> THEN <<>>
    ELSE (IF Head(srcset).parsed THEN <<Head(srcset)>> ELSE <<>>)
             \o ParsedEntries(Tail(srcset))

RECURSIVE InsertEntry(_, _)
InsertEntry(e, sorted) ==
    IF sorted = <<>> THEN <<e>>
    ELSE IF TupleLess(Head(sorted), e) THEN <<e>> \o sorted
    ELSE <<Head(sorted)>> \o InsertEntry(e, Tail(sorted))

\* Faulty variant of the sort: ascending.
RECURSIVE SortEntriesAscending(_)
SortEntriesAscending(entries) ==
    IF entries = <<>> THEN <<>>
    ELSE LET rest == SortEntriesAscending(Tail(entries))
             e == Head(entries)
             low == SelectSeq(rest, LAMBDA f : TupleLess(f, e))
             high == SelectSeq(rest, LAMBDA f : ~TupleLess(f, e))
         IN  low \o <<e>> \o high

\* _handle_medium_url, line 309: entries.sort(reverse=True), the tuples in
\* descending order.
RECURSIVE SortEntries(_)
SortEntries(entries) ==
    IF entries = <<>> THEN <<>>
    ELSE InsertEntry(entries[Len(entries)],
                     SortEntries(SubSeq(entries, 1, Len(entries) - 1)))

\* _handle_medium_url, lines 288-318: the url found in regular-body: the
\* first of the sorted srcset entries, else the first image, else none.
BodyUrl(post) ==
    LET entries == ParsedEntries(post.srcset)
    IN  IF entries # <<>> THEN SortEntries(entries)[1].url ELSE post.img

\* video_source_match, lines 211-223.
video_source_match(player) == player.source

\* video_hd_match, lines 226-237: None when the field is absent or false,
\* else the string with its backslashes removed (the empty string included).
video_hd_match(player) ==
    IF player.hd.kind = "url" THEN player.hd.url ELSE NoUrl

\* video_default_match, lines 240-251.
video_default_match(player) == player.src

ApplyRule(rule, player) ==
    CASE rule = "video_source_match" -> video_source_match(player)
      [] rule = "video_hd_match" -> video_hd_match(player)
      [] rule = "video_default_match" -> video_default_match(player)

\* Faulty variant of the registration: the legacy rules come first.
regex_rules_legacy_first ==
    <<"video_default_match", "video_hd_match", "video_source_match">>

\* _register_regex_match_rules, lines 276-279.
regex_rules ==
    <<"video_source_match", "video_hd_match", "video_default_match">>

\* _handle_medium_url, lines 322-327: the first result that is not None;
\* NoUrl when the loop ends without one (the for-else raises).
RECURSIVE FirstMatch(_, _)
FirstMatch(rules, player) ==
    IF rules = <<>> THEN NoUrl
    ELSE LET matched_url == ApplyRule(Head(rules), player)
         IN  IF matched_url # NoUrl THEN matched_url
             ELSE FirstMatch(Tail(rules), player)

\* _handle_medium_url, lines 281-333: the url, or NoUrl when it raises
\* TypeError (which download catches).
HandleMediumUrl(medium_type, post) ==
    IF post.kind = "str" THEN NoUrl
    ELSE IF medium_type = "photo"
         THEN (IF post.photo_url # NoUrl THEN post.photo_url
               ELSE BodyUrl(post))
    ELSE FirstMatch(regex_rules, post.player)


\* ------------------------------------------------------------ file system
\* A file's content: the final url whose response was written, and whether
\* it is the whole body ("full"), the body of a non-2xx response ("errpage")
\* or what an interrupted write left ("partial").
NoFile == [url |-> <<>>, part |-> "absent"]
FileOf(final_url, part) == [url |-> final_url, part |-> part]

AllUrls == {U1, U2, U3, U4, V1, VS, VH}
Paths == SiteNames \X {MediumName(u) : u \in AllUrls}

\* The bytes written when the response with this status is streamed whole.
SizeOf(final_url, status) == IF status = 200 THEN BodySize(final_url) ELSE ErrSize

\* ---------------------------------------------------------------- tracker
\* DownloadTracker.__init__, lines 49-57: a fresh session.
NewSession ==
    [photos_downloaded |-> 0, videos_downloaded |-> 0, total_bytes |-> 0,
     resolutions |-> [t \in Tags |-> 0], resolution_bytes |-> [t \in Tags |-> 0]]

\* finish_site_download, lines 103-111: a site's first history entry.
NewSiteStats ==
    [total_photos |-> 0, total_videos |-> 0, total_bytes |-> 0,
     resolutions |-> [t \in Tags |-> 0], resolution_bytes |-> [t \in Tags |-> 0],
     download_sessions |-> <<>>]

VARIABLES
    \* CrawlerScheduler (the main thread)
    spc,            \* where the main thread is
    sites,          \* CrawlerScheduler.sites
    si,             \* index of the site being downloaded
    mtype,          \* medium_type of the walk
    start,          \* the offset of _download_media
    toput,          \* posts of the decoded page not yet put on the queue
    nfail,          \* failed listing responses of this walk at this offset
    response,       \* what the last listing request of this walk gave
    \* Queue.Queue
    queue,          \* the items waiting, by index into items
    unfinished,     \* Queue.unfinished_tasks
    \* DownloadWorker threads
    pc, cur, retry_times, resp, file_size, tmp, linked,
    attempts,       \* requests.get calls made for the current item
    denied,         \* one of them was answered 403
    \* DownloadTracker
    current_session, stats, statsFile,
    \* the DOWNLOADS folder
    fs,             \* the media files, by site folder and name
    dumps,          \* the raw page dumps this walk has written
    \* history of the run
    run,            \* which run of the program this is
    items,          \* the work items put during this walk
    delivered,      \* how many times each was returned by queue.get
    outcome,        \* how each ended
    recorded,       \* how many times record_download was called for each
    succ,           \* per site: items of this run that ended in success
    skips,          \* per site: items of this run that were skipped
    raced,          \* per site: two record_download calls overlapped
    allOk,          \* every item of this run so far was downloaded or skipped
    fetched,        \* a media request was made during this run
    walks,          \* the offset each finished walk of this run ended at
    prevWalks,      \* the same, of the previous run
    prevOk,         \* there was a previous run
    fs1             \* the DOWNLOADS folder at the end of the previous run

schedVars == <<spc, sites, si, mtype, start, toput, nfail, response>>
queueVars == <<queue, unfinished>>
workerVars == <<pc, cur, retry_times, resp, file_size, tmp, linked, attempts,
                denied>>
trackerVars == <<current_session, stats, statsFile>>
fsVars == <<fs, dumps>>
histVars == <<run, items, delivered, outcome, recorded, succ, skips, raced,
              allOk, fetched,
              walks, prevWalks, prevOk, fs1>>
prevVars == <<walks, prevWalks, prevOk, fs1>>
vars == <<schedVars, queueVars, workerVars, trackerVars, fsVars, histVars>>

\* The process is running: the main thread has neither finished nor died
\* (the workers are daemon threads, lines 424-427).
Alive == spc \notin {"done", "aborted"}

Item(w) == items[cur[w]]
MediumUrl(w) == HandleMediumUrl(Item(w).medium_type, Item(w).post)
PathOf(w) == <<Item(w).site, MediumName(MediumUrl(w))>>
\* Faulty variant of the isfile test: a path that is never there is tested.
ExistsNever(path) == FALSE

\* _download, line 369: os.path.isfile(file_path).
Exists(path) == fs[path] # NoFile

\* Faulty variant of queue.get: the head is returned and left on the queue.
QueueGetPeek(w) ==
    /\ queue # <<>>
    /\ cur' = [cur EXCEPT ![w] = Head(queue)]
    /\ queue' = queue

\* ---------------------------------------------------- DownloadWorker.run
\* run, line 263: queue.get() hands the head of the queue to one worker.
QueueGet(w) ==
    /\ queue # <<>>
    /\ cur' = [cur EXCEPT ![w] = Head(queue)]
    /\ queue' = Tail(queue)

Get(w) ==
    /\ Alive /\ pc[w] = "get"
    /\ QueueGet(w)
    /\ delivered' = [delivered EXCEPT ![cur'[w]] = @ + 1]
    /\ pc' = [pc EXCEPT ![w] = "download"]
    /\ UNCHANGED <<schedVars, unfinished, retry_times, resp, file_size, tmp,
                   linked, attempts, denied, trackerVars, fsVars, run, items, outcome,
                   recorded, succ, skips, raced, allOk, fetched, prevVars>>

\* download returns (or is left by an exception): the item the worker holds
\* ends with this outcome and the locals of _download are gone.
Ends(w, how) ==
    /\ outcome' = [outcome EXCEPT ![cur[w]] = how]
    /\ succ' = IF how = "success"
               THEN [succ EXCEPT ![Item(w).site] = @ + 1] ELSE succ
    /\ skips' = IF how = "skipped"
                THEN [skips EXCEPT ![Item(w).site] = @ + 1] ELSE skips
    /\ allOk' = (allOk /\ how \in {"success", "skipped"})
    /\ retry_times' = [retry_times EXCEPT ![w] = 0]
    /\ resp' = [resp EXCEPT ![w] = 0]
    /\ file_size' = [file_size EXCEPT ![w] = 0]
    /\ tmp' = [tmp EXCEPT ![w] = 0]
    /\ attempts' = [attempts EXCEPT ![w] = 0]
    /\ denied' = [denied EXCEPT ![w] = FALSE]

\* Faulty variant of download: the TypeError is not caught and ends the
\* thread.
UnresolvedDies(w) ==
    /\ Alive /\ pc[w] = "download"
    /\ MediumUrl(w) = NoUrl
    /\ Ends(w, "dropped")
    /\ pc' = [pc EXCEPT ![w] = "dead"]
    /\ UNCHANGED <<raced, schedVars, queueVars, cur, linked, trackerVars, fsVars,
                   run, items, delivered, recorded, fetched, prevVars>>

\* download, lines 268-273: no url is found, TypeError is caught.
Unresolved(w) ==
    /\ Alive /\ pc[w] = "download"
    /\ MediumUrl(w) = NoUrl
    /\ Ends(w, "dropped")
    /\ pc' = [pc EXCEPT ![w] = "task_done"]
    /\ UNCHANGED <<raced, schedVars, queueVars, cur, linked, trackerVars, fsVars,
                   run, items, delivered, recorded, fetched, prevVars>>

\* _download, lines 344-347: IndexError leaves download and run; the thread
\* dies holding the item.
Raises(w) ==
    /\ Alive /\ pc[w] = "download"
    /\ MediumUrl(w) # NoUrl /\ RaisesIndexError(MediumUrl(w))
    /\ Ends(w, "raised")
    /\ pc' = [pc EXCEPT ![w] = "dead"]
    /\ UNCHANGED <<raced, schedVars, queueVars, cur, linked, trackerVars, fsVars,
                   run, items, delivered, recorded, fetched, prevVars>>

\* Faulty variant of the skip: the existing file is counted as a download.
SkipExistingCounted(w) ==
    /\ Ends(w, "skipped")
    /\ pc' = [pc EXCEPT ![w] = "task_done"]
    /\ current_session' =
           [current_session EXCEPT ![Item(w).site].photos_downloaded = @ + 1]
    /\ UNCHANGED <<raced, schedVars, queueVars, cur, linked, stats, statsFile,
                   fsVars, run, items, delivered, recorded, fetched, prevVars>>

\* _download, lines 369-370 with the file present: nothing else is done.
SkipExisting(w) ==
    /\ Ends(w, "skipped")
    /\ pc' = [pc EXCEPT ![w] = "task_done"]
    /\ UNCHANGED <<raced, schedVars, queueVars, cur, linked, trackerVars, fsVars,
                   run, items, delivered, recorded, fetched, prevVars>>

\* _download, lines 369-373 with the file absent: enter the retry loop.
StartFetch(w) ==
    /\ pc' = [pc EXCEPT ![w] = "request"]
    /\ retry_times' = [retry_times EXCEPT ![w] = 0]
    /\ UNCHANGED <<schedVars, queueVars, cur, resp, file_size, tmp, linked,
                   attempts, denied, trackerVars, fsVars, histVars>>

\* Faulty variant of _download without the isfile test.
CheckFileNoTest(w) ==
    /\ Alive /\ pc[w] = "download"
    /\ MediumUrl(w) # NoUrl /\ ~RaisesIndexError(MediumUrl(w))
    /\ StartFetch(w)

\* _download, lines 335-373: the url is usable; os.path.isfile decides.
CheckFile(w) ==
    /\ Alive /\ pc[w] = "download"
    /\ MediumUrl(w) # NoUrl /\ ~RaisesIndexError(MediumUrl(w))
    /\ IF Exists(PathOf(w)) THEN SkipExisting(w) ELSE StartFetch(w)

\* Faulty variant of the loop test: while retry_times <= RETRY.
AfterExceptionOffByOne(w, rt) ==
    /\ retry_times' = [retry_times EXCEPT ![w] = rt + 1]
    /\ pc' = [pc EXCEPT ![w] = IF rt + 1 <= RETRY THEN "request" ELSE "remove"]

\* _download, lines 374 and 398-402: after an exception, retry_times += 1 and
\* the while condition is tested; the else branch runs when it fails.
AfterException(w, rt) ==
    /\ retry_times' = [retry_times EXCEPT ![w] = rt + 1]
    /\ pc' = [pc EXCEPT ![w] = IF rt + 1 < RETRY THEN "request" ELSE "remove"]

\* _download, lines 376-379: one requests.get.
Requests(w) ==
    /\ attempts' = [attempts EXCEPT ![w] = @ + 1]
    /\ fetched' = TRUE

\* _download, lines 376-379: requests.get raises (timeout, connection error).
GetRaises(w) ==
    /\ Alive /\ pc[w] = "request"
    /\ Requests(w)
    /\ UNCHANGED denied
    /\ AfterException(w, retry_times[w])
    /\ UNCHANGED <<schedVars, queueVars, cur, resp, file_size, tmp, linked,
                   trackerVars, fsVars, run, items, delivered, outcome,
                   recorded, succ, skips, raced, allOk, prevVars>>

\* Faulty variant of the 403 branch: retry_times is not set to RETRY.
Get403Retried(w) ==
    /\ Alive /\ pc[w] = "request"
    /\ Requests(w)
    /\ denied' = [denied EXCEPT ![w] = TRUE]
    /\ AfterException(w, retry_times[w])
    /\ UNCHANGED <<schedVars, queueVars, cur, resp, file_size, tmp, linked,
                   trackerVars, fsVars, run, items, delivered, outcome,
                   recorded, succ, skips, raced, allOk, prevVars>>

\* _download, lines 380-383: status 403 sets retry_times to RETRY and raises.
Get403(w) ==
    /\ Alive /\ pc[w] = "request"
    /\ Requests(w)
    /\ denied' = [denied EXCEPT ![w] = TRUE]
    /\ AfterException(w, RETRY)
    /\ UNCHANGED <<schedVars, queueVars, cur, resp, file_size, tmp, linked,
                   trackerVars, fsVars, run, items, delivered, outcome,
                   recorded, succ, skips, raced, allOk, prevVars>>

\* The status the media origin answers with when it does not answer 403:
\* 200, or 404 (standing for every other non-2xx status) for a medium that
\* is gone.
OriginStatus(final_url) == IF final_url = FinalUrl(V1) THEN 404 ELSE 200

\* Faulty variant of the attempt: file_size = 0 (line 385) is missing.
OpenFileKeepsCount(w, status) ==
    /\ resp' = [resp EXCEPT ![w] = status]
    /\ file_size' = file_size
    /\ fs' = [fs EXCEPT ![PathOf(w)] = FileOf(FinalUrl(MediumUrl(w)), "partial")]
    /\ linked' = [linked EXCEPT ![w] = TRUE]
    /\ pc' = [pc EXCEPT ![w] = "stream"]


\* _download, lines 380-386: a response that is not 403, whatever its status,
\* is accepted and the file is opened for writing (created or truncated).
OpenFile(w, status) ==
    /\ resp' = [resp EXCEPT ![w] = status]
    /\ file_size' = [file_size EXCEPT ![w] = 0]
    /\ fs' = [fs EXCEPT ![PathOf(w)] = FileOf(FinalUrl(MediumUrl(w)), "partial")]
    /\ linked' = [linked EXCEPT ![w] = TRUE]
    /\ pc' = [pc EXCEPT ![w] = "stream"]

GetResponse(w) ==
    /\ Alive /\ pc[w] = "request"
    /\ Requests(w)
    /\ UNCHANGED denied
    /\ OpenFile(w, OriginStatus(FinalUrl(MediumUrl(w))))
    /\ UNCHANGED <<schedVars, queueVars, cur, retry_times, tmp,
                   trackerVars, dumps, run, items, delivered, outcome,
                   recorded, succ, skips, raced, allOk, prevVars>>

\* _download, lines 386-389: every chunk is written and counted and the file
\* is closed; the name holds the body unless it was removed meanwhile.
WriteBody(w) ==
    /\ file_size' = [file_size EXCEPT ![w] =
                        @ + SizeOf(FinalUrl(MediumUrl(w)), resp[w])]
    /\ fs' = IF linked[w]
             THEN [fs EXCEPT ![PathOf(w)] =
                      FileOf(FinalUrl(MediumUrl(w)),
                             IF resp[w] = 200 THEN "full" ELSE "errpage")]
             ELSE fs
    /\ linked' = [linked EXCEPT ![w] = FALSE]

StreamDone(w) ==
    /\ Alive /\ pc[w] = "stream"
    /\ WriteBody(w)
    /\ pc' = [pc EXCEPT ![w] = "record"]
    /\ UNCHANGED <<schedVars, queueVars, cur, retry_times, resp, tmp,
                   attempts, denied, trackerVars, dumps, histVars>>

\* _download, lines 387-389 and 398-401: iter_content raises before the last
\* byte of the body; what came before it was written and counted.
StreamFails(w) ==
    /\ Alive /\ pc[w] = "stream"
    /\ file_size' = [file_size EXCEPT ![w] =
                        @ + SizeOf(FinalUrl(MediumUrl(w)), resp[w]) - 1]
    /\ AfterException(w, retry_times[w])
    /\ linked' = [linked EXCEPT ![w] = FALSE]
    /\ UNCHANGED <<schedVars, queueVars, cur, resp, tmp,
                   attempts, denied, trackerVars, fsVars, histVars>>

\* ----------------------------------------------------- record_download
\* record_download, lines 83-96, is four augmented assignments
\*   1: [photos|videos]_downloaded += 1      2: total_bytes += file_size
\*   3: resolutions[resolution] += 1         4: resolution_bytes[resolution] += file_size
\* and no lock is held: each is a load followed by a store, and other threads
\* run between the two.
CounterOf(k, medium_type) ==
    CASE k = 1 -> IF medium_type = "photo" THEN "photos_downloaded"
                  ELSE "videos_downloaded"
      [] k = 2 -> "total_bytes"
      [] k = 3 -> "resolutions"
      [] k = 4 -> "resolution_bytes"

ReadCounter(session, k, medium_type, res) ==
    IF k \in {3, 4} THEN session[CounterOf(k, medium_type)][res]
    ELSE session[CounterOf(k, medium_type)]

WriteCounter(session, k, medium_type, res, v) ==
    IF k \in {3, 4}
    THEN [session EXCEPT ![CounterOf(k, medium_type)][res] = v]
    ELSE [session EXCEPT ![CounterOf(k, medium_type)] = v]

Increment(k, size) == IF k \in {1, 3} THEN 1 ELSE size

StorePc(k) ==
    CASE k = 1 -> "store1" [] k = 2 -> "store2" [] k = 3 -> "store3"
      [] k = 4 -> "store4"

\* The load of the k-th augmented assignment, from the session as it is
\* after this step.
LoadCounter(w, k) ==
    tmp' = [tmp EXCEPT ![w] =
               ReadCounter(current_session'[Item(w).site], k,
                           Item(w).medium_type, Resolution(MediumUrl(w)))]

\* The store of the k-th augmented assignment.
StoreCounter(w, k) ==
    current_session' =
        [current_session EXCEPT ![Item(w).site] =
            WriteCounter(@, k, Item(w).medium_type, Resolution(MediumUrl(w)),
                         tmp[w] + Increment(k, file_size[w]))]

\* Worker v is inside record_download for this site.
InRecord(v, site) ==
    /\ pc[v] \in {StorePc(k) : k \in 1..4}
    /\ Item(v).site = site

\* _download, line 392: record_download is called and its first counter is
\* loaded.
RecordDownload(w) ==
    /\ Alive /\ pc[w] = "record"
    /\ recorded' = [recorded EXCEPT ![cur[w]] = @ + 1]
    /\ raced' = IF \E v \in Workers \ {w} : InRecord(v, Item(w).site)
                THEN [raced EXCEPT ![Item(w).site] = TRUE] ELSE raced
    /\ UNCHANGED current_session
    /\ LoadCounter(w, 1)
    /\ pc' = [pc EXCEPT ![w] = StorePc(1)]
    /\ UNCHANGED <<schedVars, queueVars, cur, retry_times, resp, file_size,
                   linked, attempts, denied, stats, statsFile, fsVars, run, items,
                   delivered, outcome, succ, skips, allOk, fetched, prevVars>>

\* The store of assignment k and the load of assignment k + 1.
Store(w, k) ==
    /\ Alive /\ pc[w] = StorePc(k) /\ k < 4
    /\ StoreCounter(w, k)
    /\ LoadCounter(w, k + 1)
    /\ pc' = [pc EXCEPT ![w] = StorePc(k + 1)]
    /\ UNCHANGED <<schedVars, queueVars, cur, retry_times, resp, file_size,
                   linked, attempts, denied, stats, statsFile, fsVars, histVars>>

\* Faulty variant of the success path: the break of line 397 is missing, so
\* the loop goes on after record_download.
StoreLastNoBreak(w) ==
    /\ Alive /\ pc[w] = StorePc(4)
    /\ StoreCounter(w, 4)
    /\ AfterException(w, retry_times[w])
    /\ UNCHANGED <<schedVars, queueVars, cur, resp, file_size, tmp, linked,
                   attempts, denied, stats, statsFile, fsVars, histVars>>

\* The last store, then lines 394-397: the delay and the break.
StoreLast(w) ==
    /\ Alive /\ pc[w] = StorePc(4)
    /\ StoreCounter(w, 4)
    /\ Ends(w, "success")
    /\ pc' = [pc EXCEPT ![w] = "task_done"]
    /\ UNCHANGED <<raced, schedVars, queueVars, cur, linked, stats, statsFile,
                   fsVars, run, items, delivered, recorded, fetched, prevVars>>

\* _download, lines 402-408: the loop ended without a break; os.remove takes
\* the name away, also from the writers that hold the file open.
Unlink(w) ==
    /\ fs' = [fs EXCEPT ![PathOf(w)] = NoFile]
    /\ linked' = [v \in Workers |->
                    IF pc[v] = "stream" /\ PathOf(v) = PathOf(w)
                    THEN FALSE ELSE linked[v]]

Remove(w) ==
    /\ Alive /\ pc[w] = "remove"
    /\ Unlink(w)
    /\ Ends(w, "failed")
    /\ pc' = [pc EXCEPT ![w] = "task_done"]
    /\ UNCHANGED <<raced, schedVars, queueVars, cur, trackerVars, dumps, run, items,
                   delivered, recorded, fetched, prevVars>>

\* run, line 265: queue.task_done().
TaskDone(w) ==
    /\ Alive /\ pc[w] = "task_done"
    /\ unfinished' = unfinished - 1
    /\ cur' = [cur EXCEPT ![w] = 0]
    /\ pc' = [pc EXCEPT ![w] = "get"]
    /\ UNCHANGED <<schedVars, queue, retry_times, resp, file_size, tmp,
                   linked, attempts, denied, trackerVars, fsVars, histVars>>

\* ------------------------------------------------------- CrawlerScheduler
Site == sites[si]
Pages == Remote(Site, mtype)
PageAt(offset) == Pages[(offset \div MEDIA_NUM) + 1]
HasPage(offset) == (offset \div MEDIA_NUM) + 1 <= Len(Pages)

WorkItem(medium_type, post, site) ==
    [medium_type |-> medium_type, post |-> post, site |-> site]

\* _download_media, lines 494-502: a post with a photoset is walked photo by
\* photo; any other post, and everything on which post["photoset"]["photo"]
\* raises, is put itself.
PutsOfPost(post) ==
    IF post.kind = "dict" /\ post.photoset # <<>>
    THEN Iterate(post.photoset) ELSE <<post>>

RECURSIVE PutsOfPosts(_)
PutsOfPosts(posts) ==
    IF posts = <<>> THEN <<>>
    ELSE PutsOfPost(Head(posts)) \o PutsOfPosts(Tail(posts))

\* _download_media, lines 485-502: what one decoded page puts, in order.
PutsOfPage(page) == PutsOfPosts(Iterate(page))

Logged(result) == response' = result

\* A walk begins: _download_media, lines 456-467.
BeginWalk(medium_type) ==
    /\ mtype' = medium_type
    /\ start' = START
    /\ toput' = <<>>
    /\ nfail' = 0
    /\ response' = "none"
    /\ dumps' = {}
    /\ items' = <<>>
    /\ delivered' = <<>>
    /\ outcome' = <<>>
    /\ recorded' = <<>>
    /\ spc' = "request"

\* download_media, line 434: start_site_download touches no counter, then
\* download_photos begins.
StartSite ==
    /\ spc = "start_site"
    /\ BeginWalk("photo")
    /\ UNCHANGED <<sites, si, queueVars, workerVars, trackerVars, fs, run, succ, skips, raced,
                   allOk, fetched, prevVars>>

\* _download_media, lines 470-471: requests.get raises; nothing catches it
\* and the main thread ends.
ListingRaises ==
    /\ spc = "request"
    /\ Logged("raised")
    /\ spc' = "aborted"
    /\ UNCHANGED <<sites, si, mtype, start, toput, nfail, queueVars, workerVars,
                   trackerVars, fsVars, histVars>>

\* The sites that may be deleted while they are crawled: the listing API
\* answers 404 for them at any request, and for any other site only at the
\* first request of a walk.
MayVanish == {"b"}

\* Faulty variant of the 404 branch: the error ends the main thread.
Listing404Aborts ==
    /\ spc = "request"
    /\ start = START \/ Site \in MayVanish
    /\ Logged("404")
    /\ spc' = "aborted"
    /\ UNCHANGED <<sites, si, mtype, start, toput, nfail, queueVars, workerVars,
                   trackerVars, fsVars, histVars>>

\* _download_media, lines 472-474.
Listing404 ==
    /\ spc = "request"
    /\ start = START \/ Site \in MayVanish
    /\ Logged("404")
    /\ spc' = "join"
    /\ UNCHANGED <<sites, si, mtype, start, toput, nfail, queueVars, workerVars,
                   trackerVars, fsVars, histVars>>

\* Faulty variant of the UnicodeDecodeError handler: the page is given up and
\* the next offset is requested.
UndecodableSkipsPage ==
    /\ spc = "request" /\ nfail < MaxPageRetry
    /\ Logged("undecodable")
    /\ nfail' = nfail + 1
    /\ start' = start + MEDIA_NUM
    /\ UNCHANGED <<spc, sites, si, mtype, toput, queueVars, workerVars,
                   trackerVars, fsVars, histVars>>

\* _download_media, lines 477-478 and 506-508: the body is not utf-8; the
\* same offset is requested again.
Undecodable ==
    /\ spc = "request" /\ nfail < MaxPageRetry
    /\ Logged("undecodable")
    /\ nfail' = nfail + 1
    /\ UNCHANGED <<spc, sites, si, mtype, start, toput, queueVars, workerVars,
                   trackerVars, fsVars, histVars>>

Dump == <<Site, mtype, start>>

\* _download_media, lines 480-484 and 509-513: the dump is written, then
\* xmltodict.parse raises; the same offset is requested again.
Unparsable ==
    /\ spc = "request" /\ nfail < MaxPageRetry
    /\ Logged("unparsable")
    /\ nfail' = nfail + 1
    /\ dumps' = dumps \cup {Dump}
    /\ UNCHANGED <<spc, sites, si, mtype, start, toput, queueVars, workerVars,
                   trackerVars, fs, histVars>>

\* Faulty variant of the KeyError handler: continue instead of break.
PageExhaustedContinue ==
    /\ spc = "request" /\ ~HasPage(start)
    /\ Logged("exhausted")
    /\ dumps' = dumps \cup {Dump}
    /\ nfail' = 0
    /\ UNCHANGED <<spc, sites, si, mtype, start, toput, queueVars, workerVars,
                   trackerVars, fs, histVars>>

\* _download_media, lines 484-485 and 504-505: no "post" key, KeyError.
PageExhausted ==
    /\ spc = "request" /\ ~HasPage(start)
    /\ Logged("exhausted")
    /\ dumps' = dumps \cup {Dump}
    /\ spc' = "join"
    /\ nfail' = 0
    /\ UNCHANGED <<sites, si, mtype, start, toput, queueVars, workerVars,
                   trackerVars, fs, histVars>>

\* _download_media, lines 476-486: a page with posts is decoded.
PageDecoded ==
    /\ spc = "request" /\ HasPage(start)
    /\ Logged("posts")
    /\ dumps' = dumps \cup {Dump}
    /\ toput' = PutsOfPage(PageAt(start))
    /\ IF toput' = <<>>
       THEN start' = start + MEDIA_NUM /\ spc' = "request" /\ nfail' = 0
       ELSE start' = start /\ spc' = "put" /\ nfail' = nfail
    /\ UNCHANGED <<sites, si, mtype, queueVars, workerVars,
                   trackerVars, fs, histVars>>

\* Queue.put: the item joins the tail and unfinished_tasks grows.
QueuePut(id) ==
    /\ queue' = Append(queue, id)
    /\ unfinished' = unfinished + 1

\* Faulty variant of the loop over the posts: a failure after the last put
\* is caught by the handler that retries, before start += MEDIA_NUM.
PutThenRetry ==
    /\ spc = "put"
    /\ items' = Append(items, WorkItem(mtype, Head(toput), Site))
    /\ delivered' = Append(delivered, 0)
    /\ outcome' = Append(outcome, "none")
    /\ recorded' = Append(recorded, 0)
    /\ QueuePut(Len(items) + 1)
    /\ toput' = Tail(toput)
    /\ IF Tail(toput) = <<>>
       THEN start' = start /\ spc' = "request" /\ nfail' = 0
       ELSE UNCHANGED <<start, spc, nfail>>
    /\ UNCHANGED <<sites, si, mtype, response, workerVars, trackerVars, fsVars,
                   run, succ, skips, raced, allOk, fetched, prevVars>>

\* _download_media, lines 498, 502 and 503: one queue.put; after the last
\* post of the page, start += MEDIA_NUM.
Put ==
    /\ spc = "put"
    /\ items' = Append(items, WorkItem(mtype, Head(toput), Site))
    /\ delivered' = Append(delivered, 0)
    /\ outcome' = Append(outcome, "none")
    /\ recorded' = Append(recorded, 0)
    /\ QueuePut(Len(items) + 1)
    /\ toput' = Tail(toput)
    /\ IF Tail(toput) = <<>>
       THEN start' = start + MEDIA_NUM /\ spc' = "request" /\ nfail' = 0
       ELSE UNCHANGED <<start, spc, nfail>>
    /\ UNCHANGED <<sites, si, mtype, response, workerVars, trackerVars, fsVars,
                   run, succ, skips, raced, allOk, fetched, prevVars>>

\* Faulty variant of the wait: queue.empty() instead of queue.join().
JoinedWhenEmpty == queue = <<>>

\* Queue.join returns when unfinished_tasks is zero.
Joined == unfinished = 0

\* download_photos, lines 449-454, then download_videos begins.
JoinPhotos ==
    /\ spc = "join" /\ mtype = "photo"
    /\ Joined
    /\ walks' = Append(walks, start)
    /\ BeginWalk("video")
    /\ UNCHANGED <<sites, si, queueVars, workerVars, trackerVars, fs, run, succ, skips, raced,
                   allOk, fetched, prevWalks, prevOk, fs1>>

\* download_videos, lines 442-447.
JoinVideos ==
    /\ spc = "join" /\ mtype = "video"
    /\ Joined
    /\ walks' = Append(walks, start)
    /\ spc' = "finish"
    /\ UNCHANGED <<sites, si, mtype, start, toput, nfail, response, queueVars,
                   workerVars, trackerVars, fsVars, run, items, delivered,
                   outcome, recorded, succ, skips, raced, allOk, fetched, prevWalks, prevOk,
                   fs1>>


\* ------------------------------------------------- finish_site_download
NoStats == [s \in {} |-> NewSiteStats]

\* finish_site_download, lines 118-126: the session record (date and
\* duration left out).
SessionData(session) ==
    [photos_downloaded |-> session.photos_downloaded,
     videos_downloaded |-> session.videos_downloaded,
     bytes_downloaded |-> session.total_bytes,
     resolutions |-> session.resolutions,
     resolution_bytes |-> session.resolution_bytes]

\* Faulty variant of the merge: the totals are assigned, not added to.
MergedOverwrites(history, site, session) ==
    LET base == IF site \in DOMAIN history THEN history[site] ELSE NewSiteStats
        data == SessionData(session)
        new == [total_photos |-> data.photos_downloaded,
                total_videos |-> data.videos_downloaded,
                total_bytes |-> data.bytes_downloaded,
                resolutions |-> data.resolutions,
                resolution_bytes |-> data.resolution_bytes,
                download_sessions |-> Append(base.download_sessions, data)]
    IN  [s \in DOMAIN history \cup {site} |->
            IF s = site THEN new ELSE history[s]]

\* finish_site_download, lines 103-140: the history with the session merged.
Merged(history, site, session) ==
    LET base == IF site \in DOMAIN history THEN history[site] ELSE NewSiteStats
        data == SessionData(session)
        new == [total_photos |-> base.total_photos + data.photos_downloaded,
                total_videos |-> base.total_videos + data.videos_downloaded,
                total_bytes |-> base.total_bytes + data.bytes_downloaded,
                resolutions |->
                    [t \in Tags |-> base.resolutions[t] + data.resolutions[t]],
                resolution_bytes |->
                    [t \in Tags |-> base.resolution_bytes[t]
                                      + data.resolution_bytes[t]],
                download_sessions |-> Append(base.download_sessions, data)]
    IN  [s \in DOMAIN history \cup {site} |->
            IF s = site THEN new ELSE history[s]]

NoStatsFile == [state |-> "absent", data |-> NoStats]

\* save_stats, lines 70-76: the file is rewritten; when open fails the file
\* is as before, when the dump fails part-way the file is cut short.  The
\* exception is caught.
SaveStats(history, how) ==
    CASE how = "saved" -> [state |-> "written", data |-> history]
      [] how = "not opened" -> statsFile
      [] how = "cut" -> [state |-> "corrupt", data |-> NoStats]

\* load_stats, lines 59-68.
LoadStats == IF statsFile.state = "written" THEN statsFile.data ELSE NoStats

\* Faulty variant of save_stats: a write error is not caught and ends the
\* main thread.
FinishSiteRaises(how) ==
    /\ spc = "finish"
    /\ stats' = Merged(stats, Site, current_session[Site])
    /\ statsFile' = SaveStats(stats', how)
    /\ IF how # "saved" THEN si' = si /\ spc' = "aborted"
       ELSE IF si < Len(sites)
       THEN si' = si + 1 /\ spc' = "start_site"
       ELSE si' = si /\ spc' = "done"
    /\ UNCHANGED <<sites, mtype, start, toput, nfail, response, queueVars,
                   workerVars, current_session, fsVars, histVars>>

\* download_media, line 440, then the next site of scheduling's loop, or the
\* end of the main thread.
FinishSite(how) ==
    /\ spc = "finish"
    /\ stats' = Merged(stats, Site, current_session[Site])
    /\ statsFile' = SaveStats(stats', how)
    /\ IF si < Len(sites)
       THEN si' = si + 1 /\ spc' = "start_site"
       ELSE si' = si /\ spc' = "done"
    /\ UNCHANGED <<sites, mtype, start, toput, nfail, response, queueVars,
                   workerVars, current_session, fsVars, histVars>>

Finish == \E how \in {"saved", "not opened", "cut"} : FinishSite(how)

\* The program is started again in the same directory, after a run that
\* found media and downloaded every item it found: a new process, with the DOWNLOADS folder
\* and the statistics file as the last one left them.
Restart ==
    /\ spc = "done" /\ run < MaxRuns
    /\ allOk /\ fetched
    /\ run' = run + 1
    /\ spc' = "start_site" /\ si' = 1
    /\ mtype' = "photo" /\ start' = START /\ toput' = <<>> /\ nfail' = 0
    /\ response' = "none"
    /\ queue' = <<>> /\ unfinished' = 0
    /\ pc' = [w \in Workers |-> "get"]
    /\ cur' = [w \in Workers |-> 0]
    /\ retry_times' = [w \in Workers |-> 0]
    /\ resp' = [w \in Workers |-> 0]
    /\ file_size' = [w \in Workers |-> 0]
    /\ tmp' = [w \in Workers |-> 0]
    /\ linked' = [w \in Workers |-> FALSE]
    /\ attempts' = [w \in Workers |-> 0]
    /\ denied' = [w \in Workers |-> FALSE]
    /\ current_session' = [s \in SiteNames |-> NewSession]
    /\ stats' = LoadStats
    /\ items' = <<>> /\ delivered' = <<>> /\ outcome' = <<>> /\ recorded' = <<>>
    /\ succ' = [s \in SiteNames |-> 0]
    /\ skips' = [s \in SiteNames |-> 0]
    /\ raced' = [s \in SiteNames |-> FALSE]
    /\ allOk' = TRUE /\ fetched' = FALSE
    /\ walks' = <<>> /\ prevWalks' = walks /\ prevOk' = allOk /\ fs1' = fs
    /\ dumps' = {}
    /\ UNCHANGED <<sites, statsFile, fs>>

\* ------------------------------------------------------------------ spec
Init ==
    /\ spc = "start_site" /\ sites = Sites /\ si = 1
    /\ mtype = "photo" /\ start = START /\ toput = <<>> /\ nfail = 0
    /\ response = "none"
    /\ queue = <<>> /\ unfinished = 0
    /\ pc = [w \in Workers |-> "get"]
    /\ cur = [w \in Workers |-> 0]
    /\ retry_times = [w \in Workers |-> 0]
    /\ resp = [w \in Workers |-> 0]
    /\ file_size = [w \in Workers |-> 0]
    /\ tmp = [w \in Workers |-> 0]
    /\ linked = [w \in Workers |-> FALSE]
    /\ attempts = [w \in Workers |-> 0]
    /\ denied = [w \in Workers |-> FALSE]
    /\ current_session = [s \in SiteNames |-> NewSession]
    /\ stats = NoStats
    /\ statsFile = NoStatsFile
    /\ fs = [p \in Paths |-> NoFile]
    /\ dumps = {}
    /\ run = 1
    /\ items = <<>> /\ delivered = <<>> /\ outcome = <<>> /\ recorded = <<>>
    /\ succ = [s \in SiteNames |-> 0]
    /\ skips = [s \in SiteNames |-> 0]
    /\ raced = [s \in SiteNames |-> FALSE]
    /\ allOk = TRUE /\ fetched = FALSE
    /\ walks = <<>> /\ prevWalks = <<>> /\ prevOk = FALSE
    /\ fs1 = [p \in Paths |-> NoFile]

Worker(w) ==
    \/ Get(w)
    \/ Unresolved(w)
    \/ Raises(w)
    \/ CheckFile(w)
    \/ GetRaises(w)
    \/ Get403(w)
    \/ GetResponse(w)
    \/ StreamDone(w)
    \/ StreamFails(w)
    \/ RecordDownload(w)
    \/ \E k \in 1..3 : Store(w, k)
    \/ StoreLast(w)
    \/ Remove(w)
    \/ TaskDone(w)

Scheduler ==
    \/ StartSite
    \/ ListingRaises
    \/ Listing404
    \/ Undecodable
    \/ Unparsable
    \/ PageExhausted
    \/ PageDecoded
    \/ Put
    \/ JoinPhotos
    \/ JoinVideos
    \/ Finish
    \/ Restart

Next == Scheduler \/ \E w \in Workers : Worker(w)

Spec == Init /\ [][Next]_vars

\* ------------------------------------------------------ the resolver alone
\* What a srcset list may hold: an entry that does not parse, or one of two
\* urls at one of two widths.
Widths == {640, 1280}
EntryChoices == {NoEntry} \cup {Entry(u, wd) : u \in {U1, U2}, wd \in Widths}
SrcsetChoices == UNION {[1..n -> EntryChoices] : n \in 0..MaxEntries}
\* The src of the first <img> tag: none, an absolute url (without or with a
\* _NNN.jpg suffix), a relative one.
ImgChoices == {NoUrl, U1, U3, U4, VBad}

\* The photo walk of site a has put the two posts of its only page, a post
\* with html in regular-body and a post with a photo-url, and waits in
\* queue.join; the DOWNLOADS folder is empty or holds one photo of an earlier
\* run.
InitResolve ==
    /\ spc = "join" /\ sites = Sites /\ si = 1
    /\ mtype = "photo" /\ start = MEDIA_NUM /\ toput = <<>> /\ nfail = 0
    /\ response = "exhausted"
    /\ queue = <<1, 2>> /\ unfinished = 2
    /\ pc = [w \in Workers |-> "get"]
    /\ cur = [w \in Workers |-> 0]
    /\ retry_times = [w \in Workers |-> 0]
    /\ resp = [w \in Workers |-> 0]
    /\ file_size = [w \in Workers |-> 0]
    /\ tmp = [w \in Workers |-> 0]
    /\ linked = [w \in Workers |-> FALSE]
    /\ attempts = [w \in Workers |-> 0]
    /\ denied = [w \in Workers |-> FALSE]
    /\ current_session = [s \in SiteNames |-> NewSession]
    /\ stats = NoStats
    /\ statsFile = NoStatsFile
    /\ \E kept \in BOOLEAN :
           fs = [p \in Paths |->
                    IF kept /\ p = <<Sites[1], MediumName(U1)>>
                    THEN FileOf(FinalUrl(U1), "full") ELSE NoFile]
    /\ dumps = {<<Sites[1], "photo", START>>, <<Sites[1], "photo", MEDIA_NUM>>}
    /\ run = 1
    /\ \E srcset \in SrcsetChoices, img \in ImgChoices :
           items = <<WorkItem("photo", BodyPost("r1", srcset, img), Sites[1]),
                     WorkItem("photo", Photo("p2", U1), Sites[1])>>
    /\ delivered = <<0, 0>> /\ outcome = <<"none", "none">>
    /\ recorded = <<0, 0>>
    /\ succ = [s \in SiteNames |-> 0]
    /\ skips = [s \in SiteNames |-> 0]
    /\ raced = [s \in SiteNames |-> FALSE]
    /\ allOk = TRUE /\ fetched = FALSE
    /\ walks = <<>> /\ prevWalks = <<>> /\ prevOk = FALSE
    /\ fs1 = [p \in Paths |-> NoFile]

\* The workers take the items and resolve them, up to the first request.
ResolveNext ==
    \E w \in Workers :
        \/ Get(w)
        \/ Unresolved(w)
        \/ Raises(w)
        \/ CheckFile(w)
        \/ TaskDone(w)

SpecResolve == InitResolve /\ [][ResolveNext]_vars

\* ------------------------------------------------- the video rules alone
\* What the player markup of a video post may hold.
SourceChoices == {NoUrl, VS}
HdChoices ==
    {NoHd, HdFalse, HdUrl(VH, FALSE), HdUrl(VH, TRUE), HdUrl(EmptyUrl, FALSE)}
SrcChoices == {NoUrl, V1, VBad}

\* The photo walk of site a found no site; its video walk has put the two
\* posts of its only page, one with any mix of the three player formats and
\* one with the legacy src attribute alone, and waits in queue.join; the
\* DOWNLOADS folder is empty or holds the second video from an earlier run.
InitVideo ==
    /\ spc = "join" /\ sites = Sites /\ si = 1
    /\ mtype = "video" /\ start = MEDIA_NUM /\ toput = <<>> /\ nfail = 0
    /\ response = "exhausted"
    /\ queue = <<1, 2>> /\ unfinished = 2
    /\ pc = [w \in Workers |-> "get"]
    /\ cur = [w \in Workers |-> 0]
    /\ retry_times = [w \in Workers |-> 0]
    /\ resp = [w \in Workers |-> 0]
    /\ file_size = [w \in Workers |-> 0]
    /\ tmp = [w \in Workers |-> 0]
    /\ linked = [w \in Workers |-> FALSE]
    /\ attempts = [w \in Workers |-> 0]
    /\ denied = [w \in Workers |-> FALSE]
    /\ current_session = [s \in SiteNames |-> NewSession]
    /\ stats = NoStats
    /\ statsFile = NoStatsFile
    /\ \E kept \in BOOLEAN :
           fs = [p \in Paths |->
                    IF kept /\ p = <<Sites[1], MediumName(V1)>>
                    THEN FileOf(FinalUrl(V1), "full") ELSE NoFile]
    /\ dumps = {<<Sites[1], "video", START>>, <<Sites[1], "video", MEDIA_NUM>>}
    /\ run = 1
    /\ \E source \in SourceChoices, hd \in HdChoices, src \in SrcChoices :
           items = <<WorkItem("video", PlayerPost("v1", source, hd, src),
                              Sites[1]),
                     WorkItem("video", Video("v2", V1), Sites[1])>>
    /\ delivered = <<0, 0>> /\ outcome = <<"none", "none">>
    /\ recorded = <<0, 0>>
    /\ succ = [s \in SiteNames |-> 0]
    /\ skips = [s \in SiteNames |-> 0]
    /\ raced = [s \in SiteNames |-> FALSE]
    /\ allOk = TRUE /\ fetched = FALSE
    /\ walks = <<START>> /\ prevWalks = <<>> /\ prevOk = FALSE
    /\ fs1 = [p \in Paths |-> NoFile]

\* The workers take the items and resolve them, up to the first request.
VideoNext ==
    \E w \in Workers :
        \/ Get(w)
        \/ Unresolved(w)
        \/ Raises(w)
        \/ CheckFile(w)
        \/ TaskDone(w)

SpecVideo == InitVideo /\ [][VideoNext]_vars

\* ------------------------------------------------------ the fetch alone
\* The photo walk of site a has put two posts with different photo urls and
\* waits in queue.join; the DOWNLOADS folder is empty.
InitFetch ==
    /\ spc = "join" /\ sites = Sites /\ si = 1
    /\ mtype = "photo" /\ start = MEDIA_NUM /\ toput = <<>> /\ nfail = 0
    /\ response = "exhausted"
    /\ queue = <<1, 2>> /\ unfinished = 2
    /\ pc = [w \in Workers |-> "get"]
    /\ cur = [w \in Workers |-> 0]
    /\ retry_times = [w \in Workers |-> 0]
    /\ resp = [w \in Workers |-> 0]
    /\ file_size = [w \in Workers |-> 0]
    /\ tmp = [w \in Workers |-> 0]
    /\ linked = [w \in Workers |-> FALSE]
    /\ attempts = [w \in Workers |-> 0]
    /\ denied = [w \in Workers |-> FALSE]
    /\ current_session = [s \in SiteNames |-> NewSession]
    /\ stats = NoStats
    /\ statsFile = NoStatsFile
    /\ fs = [p \in Paths |-> NoFile]
    /\ dumps = {<<Sites[1], "photo", START>>, <<Sites[1], "photo", MEDIA_NUM>>}
    /\ run = 1
    /\ items = <<WorkItem("photo", Photo("p1", U1), Sites[1]),
                 WorkItem("photo", Photo("p2", U2), Sites[1])>>
    /\ delivered = <<0, 0>> /\ outcome = <<"none", "none">>
    /\ recorded = <<0, 0>>
    /\ succ = [s \in SiteNames |-> 0]
    /\ skips = [s \in SiteNames |-> 0]
    /\ raced = [s \in SiteNames |-> FALSE]
    /\ allOk = TRUE /\ fetched = FALSE
    /\ walks = <<>> /\ prevWalks = <<>> /\ prevOk = FALSE
    /\ fs1 = [p \in Paths |-> NoFile]

\* The workers download the items; the media origin answers every request
\* and the only failure is a transfer that breaks part-way.
FetchNext ==
    \E w \in Workers :
        \/ Get(w)
        \/ CheckFile(w)
        \/ GetResponse(w)
        \/ StreamDone(w)
        \/ StreamFails(w)
        \/ RecordDownload(w)
        \/ \E k \in 1..3 : Store(w, k)
        \/ StoreLast(w)
        \/ Remove(w)
        \/ TaskDone(w)

SpecFetch == InitFetch /\ [][FetchNext]_vars

\* ------------------------------------------------------- the tracker alone
\* The downloads a session may record: medium type, bytes, resolution tag.
RecordInputs ==
    {<<"photo", 100, 1280>>, <<"photo", 200, 0>>, <<"video", 100, 0>>}

\* record_download, lines 83-96, run by one thread with no other thread
\* inside it: the four augmented assignments in order.
RecordAlone(site, medium_type, size, res) ==
    LET Bump(session, k) ==
            WriteCounter(session, k, medium_type, res,
                         ReadCounter(session, k, medium_type, res)
                             + Increment(k, size))
    IN  current_session' =
            [current_session EXCEPT
                ![site] = Bump(Bump(Bump(Bump(@, 1), 2), 3), 4)]

\* A history an earlier run may have left in the statistics file.
OldSession ==
    [photos_downloaded |-> 1, videos_downloaded |-> 0, bytes_downloaded |-> 100,
     resolutions |-> [t \in Tags |-> IF t = 1280 THEN 1 ELSE 0],
     resolution_bytes |-> [t \in Tags |-> IF t = 1280 THEN 100 ELSE 0]]
OldStats ==
    [s \in {Sites[1]} |->
        [total_photos |-> 1, total_videos |-> 0, total_bytes |-> 100,
         resolutions |-> OldSession.resolutions,
         resolution_bytes |-> OldSession.resolution_bytes,
         download_sessions |-> <<OldSession>>]]
StatsFileChoices ==
    {NoStatsFile, [state |-> "written", data |-> OldStats],
     [state |-> "corrupt", data |-> NoStats]}

\* The process has started with the statistics file absent, written by an
\* earlier run or unreadable, and the first site is being downloaded (the
\* walks and the workers are left out: downloads complete one at a time).
InitTracker ==
    /\ spc = "join" /\ sites \in SiteLists /\ si = 1
    /\ mtype = "video" /\ start = START /\ toput = <<>> /\ nfail = 0
    /\ response = "404"
    /\ queue = <<>> /\ unfinished = 0
    /\ pc = [w \in Workers |-> "get"]
    /\ cur = [w \in Workers |-> 0]
    /\ retry_times = [w \in Workers |-> 0]
    /\ resp = [w \in Workers |-> 0]
    /\ file_size = [w \in Workers |-> 0]
    /\ tmp = [w \in Workers |-> 0]
    /\ linked = [w \in Workers |-> FALSE]
    /\ attempts = [w \in Workers |-> 0]
    /\ denied = [w \in Workers |-> FALSE]
    /\ current_session = [s \in SiteNames |-> NewSession]
    /\ statsFile \in StatsFileChoices
    /\ stats = LoadStats
    /\ fs = [p \in Paths |-> NoFile]
    /\ dumps = {}
    /\ run = 1
    /\ items = <<>> /\ delivered = <<>> /\ outcome = <<>> /\ recorded = <<>>
    /\ succ = [s \in SiteNames |-> 0]
    /\ skips = [s \in SiteNames |-> 0]
    /\ raced = [s \in SiteNames |-> FALSE]
    /\ allOk = TRUE /\ fetched = FALSE
    /\ walks = <<START>> /\ prevWalks = <<>> /\ prevOk = FALSE
    /\ fs1 = [p \in Paths |-> NoFile]

\* One download of the site completes and is recorded.
RecordOne ==
    /\ spc = "join"
    /\ current_session[Site].photos_downloaded
           + current_session[Site].videos_downloaded < MaxRecords
    /\ \E in \in RecordInputs : RecordAlone(Site, in[1], in[2], in[3])
    /\ UNCHANGED <<schedVars, queueVars, workerVars, stats, statsFile, fsVars,
                   histVars>>

\* download_media, line 434: the next site's visit begins.
NextVisit ==
    /\ spc = "start_site"
    /\ spc' = "join"
    /\ walks' = Append(walks, START)
    /\ UNCHANGED <<sites, si, mtype, start, toput, nfail, response, queueVars,
                   workerVars, trackerVars, fsVars, run, items, delivered,
                   outcome, recorded, succ, skips, raced, allOk, fetched,
                   prevWalks, prevOk, fs1>>

TrackerNext ==
    \/ RecordOne
    \/ JoinVideos
    \/ Finish
    \/ NextVisit

SpecTracker == InitTracker /\ [][TrackerNext]_vars


\* ----------------------------------------------------------- properties
ItemIds == 1..Len(items)
Busy(w) == cur[w] # 0
RecordPcs == {"record"} \cup {StorePc(k) : k \in 1..4}

\* C1: every work item put on the queue is handed by queue.get to exactly one
\* worker and processed once, and none is lost: an item is either on the
\* queue once and not yet delivered, or delivered once and off the queue,
\* held by at most one worker, and when no task is unfinished every item has
\* been delivered and has ended.
C1_EachItemProcessedOnce ==
    \A i \in ItemIds :
        LET waiting == Cardinality({k \in 1..Len(queue) : queue[k] = i})
            holders == Cardinality({w \in Workers : cur[w] = i})
        IN  /\ delivered[i] <= 1
            /\ waiting + delivered[i] = 1
            /\ holders <= delivered[i]
            /\ (delivered[i] = 1 /\ holders = 0) => outcome[i] # "none"
            /\ unfinished = 0 => (delivered[i] = 1 /\ outcome[i] # "none")

\* Both workers hold an item of one page at the same time.
C1_Witness ==
    /\ Len(items) = 2
    /\ \A w \in Workers : pc[w] = "download"
    /\ \E v, w \in Workers : cur[v] = 1 /\ cur[w] = 2

\* The queue of the site being crawled has drained: queue.join has returned
\* or is about to return with every put item done.
Drained == (spc = "join" /\ unfinished = 0) \/ spc = "finish"

SessionCount(site) ==
    current_session[site].photos_downloaded
        + current_session[site].videos_downloaded

C3_RecordedAtMostOnce ==
    \A i \in ItemIds :
        /\ recorded[i] <= 1
        /\ outcome[i] = "success" => recorded[i] = 1
        /\ outcome[i] \in {"failed", "skipped", "dropped", "raised"}
               => recorded[i] = 0

\* An item is recorded on its third attempt, after two failed ones.
C3_Witness ==
    \E w \in Workers :
        /\ pc[w] = StorePc(1)
        /\ attempts[w] = 3 /\ retry_times[w] = 2
        /\ recorded[cur[w]] = 1

\* C4, in a state: a worker that leaves the retry loop without a 403 has made
\* exactly RETRY requests and has recorded nothing.
C4_Exhausted(w) ==
    (pc[w] = "remove" /\ ~denied[w]) =>
        /\ attempts[w] = RETRY
        /\ retry_times[w] = RETRY
        /\ recorded[cur[w]] = 0

\* C4, in a step: its next step ends the item as Failed, records nothing and
\* leaves no file at the destination path.
C4_CleansUp(w) ==
    (pc[w] = "remove" /\ ~denied[w] /\ pc'[w] # "remove") =>
        /\ pc'[w] = "task_done"
        /\ outcome'[cur[w]] = "failed"
        /\ recorded'[cur[w]] = 0
        /\ current_session' = current_session
        /\ fs'[PathOf(w)] = NoFile

\* C4: when every attempt on an item fails with a transient error, exactly
\* RETRY attempts are made, the item ends Failed, nothing is recorded and no
\* file is at the destination path afterwards.
C4_TransientFailureExhaustsRetries ==
    /\ [](\A w \in Workers : C4_Exhausted(w))
    /\ [][\A w \in Workers : C4_CleansUp(w)]_vars

\* A worker has used up its attempts and a partial file is at the path.
C4_Witness ==
    \E w \in Workers :
        /\ pc[w] = "remove" /\ ~denied[w]
        /\ attempts[w] = RETRY
        /\ Exists(PathOf(w))

\* C5, in a state: after a 403 the worker is at the cleanup, with nothing
\* recorded.
C5_Stopped(w) ==
    denied[w] =>
        /\ pc[w] = "remove"
        /\ retry_times[w] > RETRY
        /\ recorded[cur[w]] = 0

\* C5, in a step: the request answered 403 is the last one (the only one
\* when it is the first), and the step after it ends the item as Failed
\* without a request and without recording.
C5_NoMoreRequests(w) ==
    /\ (pc[w] = "request" /\ denied'[w]) =>
           (pc'[w] = "remove" /\ attempts'[w] = attempts[w] + 1)
    /\ (denied[w] /\ pc'[w] # pc[w]) =>
           /\ pc'[w] = "task_done"
           /\ outcome'[cur[w]] = "failed"
           /\ recorded' = recorded
           /\ current_session' = current_session
           /\ fetched' = fetched

\* C5: a 403 response ends the retry loop at once, the item ends Failed with
\* nothing recorded; when the first response is 403 exactly one attempt is
\* made.
C5_ForbiddenEndsLoop ==
    /\ [](\A w \in Workers : C5_Stopped(w))
    /\ [][\A w \in Workers : C5_NoMoreRequests(w)]_vars

\* The first request of an item was answered 403.
C5_Witness ==
    \E w \in Workers : denied[w] /\ attempts[w] = 1 /\ pc[w] = "remove"

\* C6 as stated: a response with a non-2xx status other than 403 is a failed
\* attempt: its body is never kept as the media file and it is never
\* recorded.
C6_ErrorStatusIsFailure ==
    /\ \A w \in Workers : pc[w] \in RecordPcs => resp[w] = 200
    /\ \A p \in Paths : fs[p].part # "errpage"

\* C7, in a step: a worker that finds a file at the destination path ends
\* the item as Skipped without a request, and neither the files nor any
\* tracker counter change.
C7_Skips(w) ==
    (/\ pc[w] = "download"
     /\ MediumUrl(w) # NoUrl /\ ~RaisesIndexError(MediumUrl(w))
     /\ Exists(PathOf(w))
     /\ pc'[w] # pc[w]) =>
        /\ pc'[w] = "task_done"
        /\ outcome'[cur[w]] = "skipped"
        /\ attempts'[w] = 0 /\ fetched' = fetched
        /\ fs' = fs
        /\ current_session' = current_session
        /\ recorded' = recorded

\* C7: when a file already exists at an item's destination path the worker
\* reports Skipped, makes no network request, leaves the file unchanged and
\* changes no tracker counter.
C7_ExistingFileSkipped == [][\A w \in Workers : C7_Skips(w)]_vars

\* An item has been skipped while the file it names was being written.
C7_Witness ==
    \E w \in Workers :
        /\ pc[w] = "task_done" /\ outcome[cur[w]] = "skipped"
        /\ fs[PathOf(w)].part = "partial"

\* The listing has so far answered this run as it did the previous one: the
\* walks that have ended stopped at the same offsets, the walk under way
\* has not gone past the offset at which it stopped then, and no listing
\* request has raised.
SamePages ==
    /\ spc # "aborted"
    /\ Len(walks) <= Len(prevWalks)
    /\ \A j \in 1..Len(walks) : walks[j] = prevWalks[j]
    /\ spc \in {"request", "put", "join"} =>
           /\ Len(walks) < Len(prevWalks)
           /\ IF spc = "put" THEN start < prevWalks[Len(walks) + 1]
              ELSE start <= prevWalks[Len(walks) + 1]

\* C8: in a run that follows a run in which every item was downloaded, over
\* the same pages, no media is fetched, every item is Skipped, the session's
\* download and byte counters stay zero and every media file is as the
\* previous run left it.
C8_SecondRunIdempotent ==
    (run > 1 /\ prevOk /\ SamePages) =>
        /\ ~fetched
        /\ fs = fs1
        /\ \A s \in SiteNames : current_session[s] = NewSession
        /\ \A i \in ItemIds : outcome[i] \in {"none", "skipped"}

\* The second run has skipped both photos of a page the first run downloaded.
C8_Witness ==
    /\ run = 2 /\ prevOk /\ SamePages
    /\ Len(items) = 2 /\ unfinished = 0
    /\ \A i \in ItemIds : outcome[i] = "skipped"
    /\ \E p \in Paths : fs[p].part = "full"

\* The scheduler is between two walks: before the first request of a walk,
\* at finish_site_download, or past it.
BetweenWalks ==
    \/ spc \in {"start_site", "finish", "done"}
    \/ spc = "request" /\ start = START

\* C9: the scheduler begins the next phase, finalizes the site or moves to
\* the next site only with no item outstanding, so no worker is in or before
\* record_download once finish_site_download runs, and a busy worker's item
\* is of the site being crawled.
C9_ProceedsOnlyWhenDrained ==
    /\ BetweenWalks =>
           /\ unfinished = 0
           /\ queue = <<>>
           /\ \A w \in Workers : pc[w] = "get" /\ ~Busy(w)
    /\ \A w \in Workers :
           (Busy(w) /\ cur[w] \in ItemIds) => Item(w).site = Site

\* The scheduler has moved to the second site after two downloads for the
\* first.
C9_Witness ==
    /\ spc = "start_site" /\ si = 2
    /\ succ[Sites[1]] = 2

RECURSIVE PutsOfPages(_)
PutsOfPages(pages) ==
    IF pages = <<>> THEN <<>>
    ELSE PutsOfPage(Head(pages)) \o PutsOfPages(Tail(pages))

\* C10: when pages 0..k-1 of a listing hold posts and page k holds none, the
\* walk puts every item of pages 0..k-1, gets the empty answer once and
\* stops: no offset beyond k * MEDIA_NUM is requested and nothing is put
\* after the empty answer.
C10_StopsAtFirstEmptyPage ==
    /\ spc \in {"request", "put", "join"} => start <= Len(Pages) * MEDIA_NUM
    /\ response = "exhausted" => spc \notin {"request", "put"}
    /\ (response = "exhausted" /\ spc = "join") =>
           /\ start = Len(Pages) * MEDIA_NUM
           /\ toput = <<>>
           /\ [i \in ItemIds |-> items[i].post] = PutsOfPages(Pages)
           /\ \A i \in ItemIds :
                  items[i].site = Site /\ items[i].medium_type = mtype

\* A walk over one page of two posts has stopped at the empty second page.
C10_Witness ==
    /\ response = "exhausted" /\ spc = "join"
    /\ start = MEDIA_NUM
    /\ Len(items) = 2

\* C11, the 404 itself: the walk goes to its queue.join and nothing that was
\* put is taken back.
C11_EndsWalk ==
    (spc = "request" /\ response' = "404") =>
        /\ spc' = "join"
        /\ UNCHANGED <<queue, unfinished, items, si, mtype>>

\* C11, after it: the scheduler leaves the join only with every item put
\* during the walk ended, for the video walk of the same site after the
\* photo walk and for finish_site_download after the video walk.
C11_GoesOn ==
    (spc = "join" /\ response = "404" /\ spc' # "join") =>
        /\ \A i \in ItemIds : outcome[i] # "none"
        /\ si' = si
        /\ IF mtype = "photo"
           THEN spc' = "request" /\ mtype' = "video" /\ start' = START
           ELSE spc' = "finish"

\* C11, the end of the visit: the session is appended to the site's history
\* and the next site of the list, if any, is started.
C11_Finalizes ==
    (spc = "finish" /\ spc' # "finish") =>
        /\ Site \in DOMAIN stats'
        /\ Len(stats'[Site].download_sessions) =
               (IF Site \in DOMAIN stats
                THEN Len(stats[Site].download_sessions) ELSE 0) + 1
        /\ IF si < Len(sites) THEN spc' = "start_site" /\ si' = si + 1
           ELSE spc' = "done"

\* C11: a 404 from the listing API ends the walk of that site and media kind
\* only: the items put before it are still processed, the other media kind
\* is still walked, the session is still finalized and the later sites are
\* still processed.
C11_NotFoundEndsOnlyTheWalk == [][C11_EndsWalk /\ C11_GoesOn /\ C11_Finalizes]_vars

\* The second page of a walk was answered 404 and the three items of the
\* first page have been processed.
C11_Witness ==
    /\ response = "404" /\ spc = "join"
    /\ start = MEDIA_NUM
    /\ Len(items) = 3 /\ unfinished = 0
    /\ \A i \in ItemIds : outcome[i] # "none"

\* C12 as stated: no failure while an item is processed leaves the worker's
\* loop, so every worker thread is alive for the whole run.
C12_WorkersStayAlive ==
    Cardinality({w \in Workers : pc[w] # "dead"}) = Cardinality(Workers)

\* C13 as stated: no failure of a page walk, a raising listing request
\* included, ends the main thread before every site has been processed.
C13_WalkFailureContained ==
    /\ spc # "aborted"
    /\ response = "raised" => spc \in {"request", "join"}

\* C17 as stated: every item a worker took is marked processed on every exit
\* path of its processing, so that a queue.join with every other item done
\* is never left waiting for a worker that will not call task_done.
C17_ProcessedOnEveryExit ==
    /\ \A w \in Workers :
           (Busy(w) /\ cur[w] \in ItemIds /\ outcome[cur[w]] # "none")
               => pc[w] = "task_done"
    /\ ~(/\ spc = "join" /\ unfinished > 0 /\ queue = <<>>
         /\ \A w \in Workers : pc[w] \in {"get", "dead"})

\* C16, in a state: a dropped item was handed out once, is not on the queue
\* again and was never recorded.
C16_NotRetried ==
    \A i \in ItemIds :
        outcome[i] = "dropped" =>
            /\ delivered[i] = 1
            /\ recorded[i] = 0
            /\ \A k \in 1..Len(queue) : queue[k] # i

\* C16, in a step: a worker whose item resolves to no url ends it without a
\* request, a file or a counter touched and without putting anything; its
\* next step is task_done, after which it waits for the next item.
C16_Drops(w) ==
    /\ (pc[w] = "download" /\ MediumUrl(w) = NoUrl /\ pc'[w] # pc[w]) =>
           /\ pc'[w] = "task_done"
           /\ outcome'[cur[w]] = "dropped"
           /\ attempts'[w] = 0 /\ fetched' = fetched
           /\ fs' = fs
           /\ current_session' = current_session
           /\ recorded' = recorded
           /\ UNCHANGED <<queue, unfinished, items>>
    /\ (/\ pc[w] = "task_done" /\ outcome[cur[w]] = "dropped"
        /\ pc'[w] # pc[w]) =>
           /\ pc'[w] = "get" /\ cur'[w] = 0
           /\ unfinished' = unfinished - 1
           /\ UNCHANGED <<queue, items>>

\* C16: an item for which no rule yields a url is dropped: no fetch, no
\* counter changed, not put again or retried, still marked processed, and
\* the worker goes on to the next item.
C16_UnresolvedItemDropped ==
    /\ []C16_NotRetried
    /\ [][\A w \in Workers : C16_Drops(w)]_vars

\* Both items of a page were dropped and marked processed.
C16_Witness ==
    /\ Len(items) = 2 /\ unfinished = 0
    /\ \A i \in ItemIds : outcome[i] = "dropped"
    /\ \A w \in Workers : pc[w] = "get"

\* The items of the walk for which record_download was called, the bytes
\* each call was given and the resolution tag it was given.
Calls == {i \in ItemIds : recorded[i] > 0}
CallUrl(i) == HandleMediumUrl(items[i].medium_type, items[i].post)
CallSize(i) ==
    SizeOf(FinalUrl(CallUrl(i)), OriginStatus(FinalUrl(CallUrl(i))))

RECURSIVE SumSizes(_)
SumSizes(calls) ==
    IF calls = {} THEN 0
    ELSE LET i == CHOOSE j \in calls : TRUE
         IN  CallSize(i) + SumSizes(calls \ {i})

\* C18 as stated: concurrent record_download calls never lose an update:
\* when the queue has drained after a walk, the walk's download counter is
\* the number of record_download calls and, after the photo walk that opens
\* a session, the byte and per-resolution counters are the sums of what the
\* calls contributed.
C18_NoLostUpdate ==
    (spc = "join" /\ unfinished = 0) =>
        LET session == current_session[Site]
            tagged(t) == {i \in Calls : Resolution(CallUrl(i)) = t}
        IN  /\ session[CounterOf(1, mtype)] = Cardinality(Calls)
            /\ mtype = "photo" =>
                   /\ session.total_bytes = SumSizes(Calls)
                   /\ \A t \in Tags :
                          /\ session.resolutions[t] = Cardinality(tagged(t))
                          /\ session.resolution_bytes[t] = SumSizes(tagged(t))

\* C19 as stated: no two workers have the same destination path open for
\* writing at the same time, also when two items resolve to the same name.
C19_OneWriterPerPath ==
    \A v, w \in Workers :
        (v # w /\ pc[v] = "stream" /\ pc[w] = "stream")
            => PathOf(v) # PathOf(w)

Candidates(w) == ParsedEntries(Item(w).post.srcset)
MaxWidth(entries) ==
    CHOOSE m \in {entries[k].width : k \in DOMAIN entries} :
        \A k \in DOMAIN entries : entries[k].width <= m
\* The worker holds a photo post without photo-url whose srcset list has
\* entries that parse.
HoldsSrcset(w) ==
    /\ Busy(w)
    /\ Item(w).medium_type = "photo" /\ Item(w).post.kind = "dict"
    /\ Item(w).post.photo_url = NoUrl
    /\ Candidates(w) # <<>>

\* C14: for a photo post without photo-url and with a srcset list, the url
\* _handle_medium_url returns is that of an entry whose width is the
\* greatest of all parsed entries, whatever the order of the list.
C14_SrcsetPicksWidest ==
    \A w \in Workers :
        HoldsSrcset(w) =>
            \E k \in DOMAIN Candidates(w) :
                /\ Candidates(w)[k].url = MediumUrl(w)
                /\ Candidates(w)[k].width = MaxWidth(Candidates(w))

\* The widest entry is the last of a list that also holds an entry that does
\* not parse, and its url is the one about to be requested.
C14_Witness ==
    \E w \in Workers :
        /\ pc[w] = "request"
        /\ Item(w).post.srcset = <<Entry(U1, 640), NoEntry, Entry(U2, 1280)>>
        /\ MediumUrl(w) = U2

\* The first entry of the greatest width.
FirstWidest(entries) ==
    entries[CHOOSE k \in DOMAIN entries :
                /\ entries[k].width = MaxWidth(entries)
                /\ \A j \in 1..(k - 1) : entries[j].width # MaxWidth(entries)]

\* C20 as stated: when several srcset entries have the greatest width, the
\* url returned is that of the one that comes first in the list.
C20_TieGoesToFirstListed ==
    \A w \in Workers :
        HoldsSrcset(w) => MediumUrl(w) = FirstWidest(Candidates(w)).url

\* C15, in a step: finish_site_download adds the session's counters to the
\* site's totals, appends the session's record as the last of
\* download_sessions, leaves the other sites' histories alone and writes the
\* whole history to the statistics file (which, when the write fails, is as
\* before or cut short).
C15_AddsSession ==
    (spc = "finish" /\ spc' # "finish") =>
        LET old == IF Site \in DOMAIN stats THEN stats[Site] ELSE NewSiteStats
            new == stats'[Site]
            session == current_session[Site]
        IN  /\ DOMAIN stats' = DOMAIN stats \cup {Site}
            /\ \A s \in DOMAIN stats \ {Site} : stats'[s] = stats[s]
            /\ new.total_photos = old.total_photos + session.photos_downloaded
            /\ new.total_videos = old.total_videos + session.videos_downloaded
            /\ new.total_bytes = old.total_bytes + session.total_bytes
            /\ \A t \in Tags :
                   /\ new.resolutions[t] =
                          old.resolutions[t] + session.resolutions[t]
                   /\ new.resolution_bytes[t] =
                          old.resolution_bytes[t] + session.resolution_bytes[t]
            /\ Len(new.download_sessions) = Len(old.download_sessions) + 1
            /\ SubSeq(new.download_sessions, 1, Len(old.download_sessions))
                   = old.download_sessions
            /\ Last(new.download_sessions).photos_downloaded
                   = session.photos_downloaded
            /\ Last(new.download_sessions).videos_downloaded
                   = session.videos_downloaded
            /\ Last(new.download_sessions).bytes_downloaded
                   = session.total_bytes
            /\ \/ statsFile' = [state |-> "written", data |-> stats']
               \/ statsFile' = statsFile
               \/ statsFile'.state = "corrupt"

\* The visits of the site list that finish_site_download has ended.
FinishedVisits == {k \in 1..Len(sites) : k < si \/ spc = "done"}

\* C15, in a state: as long as no statistics file exists the history holds
\* nothing but one session for each visit this run has finished.
C15_StartsEmpty ==
    statsFile.state = "absent" =>
        /\ DOMAIN stats = {sites[k] : k \in FinishedVisits}
        /\ \A s \in DOMAIN stats :
               Len(stats[s].download_sessions) =
                   Cardinality({k \in FinishedVisits : sites[k] = s})

\* C15: finish_site_download adds exactly the session's photo, video and
\* byte counts and per-resolution counts and bytes to the site's totals,
\* appends exactly one session record at the end and persists the whole
\* history; with no statistics file the history starts empty.
C15_FinishAddsSessionToHistory ==
    /\ []C15_StartsEmpty
    /\ [][C15_AddsSession]_vars

\* With no statistics file at the start, one site with two photos of 100 and
\* 200 bytes and no video has been persisted as total_photos 2 and
\* total_bytes 300.
C15_Witness ==
    /\ statsFile.state = "written"
    /\ DOMAIN statsFile.data = {Sites[1]}
    /\ statsFile.data[Sites[1]].total_photos = 2
    /\ statsFile.data[Sites[1]].total_videos = 0
    /\ statsFile.data[Sites[1]].total_bytes = 300
    /\ Len(statsFile.data[Sites[1]].download_sessions) = 1
    /\ current_session[Sites[1]].resolution_bytes[0] = 200

\* The worker holds a video post (a dict with a video-player payload).
HoldsVideo(w) ==
    /\ Busy(w)
    /\ Item(w).medium_type = "video" /\ Item(w).post.kind = "dict"

\* C21: the video rules are tried in a fixed order and the first that
\* matches wins: the url of a <source src=...mp4> tag if there is one; else
\* the hdUrl string if the field is there and is not the literal false; else
\* (no hdUrl field, or hdUrl false) the default src attribute; and when no
\* rule matches no url is found.
C21_FirstMatchingRuleWins ==
    \A w \in Workers :
        HoldsVideo(w) =>
            LET player == Item(w).post.player
                url == MediumUrl(w)
            IN  /\ player.source # NoUrl => url = player.source
                /\ (player.source = NoUrl /\ player.hd.kind = "url")
                       => url = player.hd.url
                /\ (player.source = NoUrl /\ player.hd.kind \in {"none", "false"})
                       => url = player.src
                /\ (/\ player.source = NoUrl /\ player.hd.kind # "url"
                    /\ player.src = NoUrl) => url = NoUrl

\* A post with hdUrl false and a legacy src attribute has resolved to the src
\* url, which is about to be requested.
C21_Witness ==
    \E w \in Workers :
        /\ pc[w] = "request" /\ HoldsVideo(w)
        /\ Item(w).post.player = Player(NoUrl, HdFalse, V1)
        /\ MediumUrl(w) = V1

\* C22 as stated: the resolution tag _download computes is the width W when
\* the url has an sWxH path segment, otherwise NNN when it has a _NNN.ext
\* suffix, otherwise "unknown" (0), whatever else the url holds.
C22_TagFromUrl ==
    \A w \in Workers :
        (/\ Busy(w) /\ pc[w] \in {"request", "task_done"}
         /\ MediumUrl(w) # NoUrl) =>
            LET url == MediumUrl(w)
            IN  Resolution(url) =
                    IF url.sseg # 0 THEN url.sseg
                    ELSE IF url.suf # 0 THEN url.suf ELSE 0

\* C23, the failed attempt: the step in which a response turns out not to be
\* utf-8 leaves the offset, the queue, the items and the dumps as they are,
\* and the same offset is requested next.
C23_RetriesSameOffset ==
    (spc = "request" /\ response' = "undecodable" /\ nfail' # nfail) =>
        /\ spc' = "request"
        /\ UNCHANGED <<start, queue, unfinished, items, toput, dumps>>

\* C23, the offset: within a walk it changes only by + MEDIA_NUM, in the step
\* that ends the iteration of a decoded page's posts.
C23_AdvancesAfterPage ==
    start' # start =>
        \/ start' = START
        \/ /\ start' = start + MEDIA_NUM
           /\ response' = "posts" /\ toput' = <<>>
           /\ <<Site, mtype, start>> \in dumps'

\* C23: a page response that fails to decode is requested again at the same
\* offset, with nothing put and no dump written for the failed attempt; the
\* offset advances only by MEDIA_NUM and only after the posts of a page were
\* iterated, so every requested offset is a multiple of MEDIA_NUM from START.
C23_DecodeFailureRetriesSameOffset ==
    /\ [](start >= START /\ (start - START) % MEDIA_NUM = 0)
    /\ [][C23_RetriesSameOffset /\ C23_AdvancesAfterPage]_vars

\* The response to the request at offset MEDIA_NUM, after a page of two
\* posts, did not decode: the offset is still MEDIA_NUM and no dump of it
\* exists.
C23_Witness ==
    /\ spc = "request" /\ response = "undecodable"
    /\ start = START + MEDIA_NUM
    /\ Len(items) = 2
    /\ <<Site, mtype, start>> \notin dumps

\* The items a list of posts stands for: the sub-photos of a post with a
\* photoset, any other post itself, in listing order.
RECURSIVE SubItems(_)
SubItems(posts) ==
    IF posts = <<>> THEN <<>>
    ELSE (IF Head(posts).photoset # <<>> THEN Head(posts).photoset
          ELSE <<Head(posts)>>) \o SubItems(Tail(posts))

RECURSIVE SubItemsOfPages(_)
SubItemsOfPages(pages) ==
    IF pages = <<>> THEN <<>>
    ELSE SubItems(Head(pages)) \o SubItemsOfPages(Tail(pages))

\* C24 as stated: the items put for the decoded pages of a walk are, in
\* listing order, one per sub-photo of each photoset post and one for each
\* other post, so their number is the sum of these.
C24_OneItemPerSubPhoto ==
    (response = "exhausted" /\ spc = "join") =>
        /\ Len(items) = Len(SubItemsOfPages(Pages))
        /\ \A i \in ItemIds : items[i].post = SubItemsOfPages(Pages)[i]

\* C25 as stated: the session is fresh at every site-download start: right
\* after start_site_download(site) every counter of the site's session is
\* zero, also when the site list names the site more than once.
C25_SessionFreshAtStart ==
    [][(spc = "start_site" /\ spc' # "start_site")
          => current_session'[sites[si]] = NewSession]_vars

\* C26, the finishing step, whatever became of the write: the history in
\* memory holds the session as its site's last record and every record it
\* held before, and the scheduler goes on to the next site (or ends after
\* the last).
C26_GoesOn ==
    (spc = "finish" /\ spc' # "finish") =>
        /\ Site \in DOMAIN stats'
        /\ Last(stats'[Site].download_sessions)
               = SessionData(current_session[Site])
        /\ \A s \in DOMAIN stats :
               /\ s \in DOMAIN stats'
               /\ SubSeq(stats'[s].download_sessions, 1,
                         Len(stats[s].download_sessions))
                      = stats[s].download_sessions
        /\ IF si < Len(sites) THEN spc' = "start_site" /\ si' = si + 1
           ELSE spc' = "done"

\* C26, the file: it changes only in a finishing step, and then it holds the
\* whole history that is in memory after the step, or is cut short by the
\* error; nothing but a finishing step changes the history in memory.
C26_WritesWholeHistory ==
    /\ statsFile' # statsFile =>
           /\ spc = "finish"
           /\ \/ statsFile' = [state |-> "written", data |-> stats']
              \/ statsFile'.state = "corrupt"
    /\ stats' # stats => spc = "finish"

\* C26: a write error while the statistics file is persisted does not
\* interrupt the crawl: the history in memory still holds the session just
\* merged, the scheduler goes on to the next site, and the next persist that
\* succeeds writes the whole history, every session merged so far included.
C26_PersistFailureDoesNotInterrupt ==
    [][C26_GoesOn /\ C26_WritesWholeHistory]_vars

\* The write at the end of the first site failed (no statistics file exists
\* yet): the history in memory holds the site's session of two downloads and
\* the scheduler is at the start of the second site.
C26_Witness ==
    /\ spc = "start_site" /\ si = 2
    /\ statsFile.state = "absent"
    /\ Sites[1] \in DOMAIN stats
    /\ Len(stats[Sites[1]].download_sessions) = 1
    /\ stats[Sites[1]].total_photos = 2

\* The size of the body of the response a worker's current attempt got.
AttemptSize(w) == SizeOf(FinalUrl(MediumUrl(w)), resp[w])

\* C27, the count: the file_size given to record_download is the size of the
\* body the successful attempt streamed, and with no overlapping
\* record_download calls the session's total_bytes after the photo walk is
\* the sum of these over the downloaded items.
C27_CountsOneAttempt ==
    /\ \A w \in Workers : pc[w] \in RecordPcs => file_size[w] = AttemptSize(w)
    /\ (spc = "join" /\ mtype = "photo" /\ unfinished = 0 /\ ~raced[Site]) =>
           current_session[Site].total_bytes = SumSizes(Calls)

\* C27, the file: when the stream of an attempt ends, the file at the path
\* (if the name was not removed meanwhile) is the body of that attempt's
\* response and nothing else.
C27_FileIsOneBody ==
    \A w \in Workers :
        (pc[w] = "stream" /\ pc'[w] = "record" /\ linked[w]) =>
            fs'[PathOf(w)] =
                FileOf(FinalUrl(MediumUrl(w)),
                       IF resp[w] = 200 THEN "full" ELSE "errpage")

\* C27: the byte count recorded for a download is that of the successful
\* attempt alone: bytes streamed by earlier failed attempts of the item are
\* not added, and the file holds only the successful attempt's bytes.
C27_BytesOfSuccessfulAttemptOnly ==
    /\ []C27_CountsOneAttempt
    /\ [][C27_FileIsOneBody]_vars

\* A photo of 2 bytes is about to be recorded on its third attempt, after
\* two transfers that broke after the first byte: file_size is 2 and the
\* file is the whole body.
C27_Witness ==
    \E w \in Workers :
        /\ pc[w] = "record" /\ MediumUrl(w) = U1
        /\ attempts[w] = 3 /\ retry_times[w] = 2
        /\ file_size[w] = 2
        /\ fs[PathOf(w)] = FileOf(FinalUrl(U1), "full")

\* C28 as stated: the failure cleanup of one item never deletes a file that
\* another item downloaded: when the queue has drained, the file of every
\* item of the walk that ended in Success exists.
C28_SuccessfulFilesRemain ==
    (spc = "join" /\ unfinished = 0) =>
        \A i \in ItemIds :
            outcome[i] = "success" =>
                Exists(<<items[i].site, MediumName(CallUrl(i))>>)

\* The pages of the listing that lie before an offset.
PagesBefore(offset) ==
    SubSeq(Pages, 1,
           IF offset \div MEDIA_NUM < Len(Pages) THEN offset \div MEDIA_NUM
           ELSE Len(Pages))

\* C29: within a walk no post is put twice, whatever was retried: the items
\* put so far are, in order and each once, the first of the items the
\* listing's pages stand for, and every request of an offset, a repeated one
\* included, is made with exactly the items of the earlier offsets put and
\* none of its own.
C29_NoPostPutTwice ==
    spc \in {"request", "put", "join"} =>
        /\ Len(items) <= Len(PutsOfPages(Pages))
        /\ \A i \in ItemIds :
               items[i] = WorkItem(mtype, PutsOfPages(Pages)[i], Site)
        /\ spc = "request" =>
               Len(items) = Len(PutsOfPages(PagesBefore(start)))

\* The request of the first page was repeated after a failed response, and
\* the first of the page's two posts has been put, once.
C29_Witness ==
    /\ spc = "put" /\ nfail = 1 /\ start = START
    /\ Len(items) = 1 /\ Len(toput) = 1
    /\ items[1].post # toput[1]

====
